---- MODULE Spec2Model ----
(***************************************************************************)
(* Model of the apartment-listings API (src/main.py, src/listings/         *)
(* listings.py): the in-memory store listings_db and the four handlers     *)
(* create_listing, list_listings, update_listing and delete_listing.       *)
(*                                                                         *)
(* Encoding of Python values:                                              *)
(*   - Optional[T]: None is the empty sequence <<>>, a present value x is  *)
(*     the one-element sequence <<x>>;                                     *)
(*   - city and state are sequences of one-character strings, so that      *)
(*     str.lower() is computed character by character;                     *)
(*   - listings_db (a dict, which keeps insertion order) is a sequence of  *)
(*     ListingRead records with pairwise distinct ids;                     *)
(*   - float query bounds on the bathroom count are kept in half units     *)
(*     (3 stands for 1.5), the stored int count is doubled on comparison;  *)
(*   - uuid4() is a nondeterministic choice among UUIDs;                   *)
(*   - datetime.utcnow() returns a value >= the last value returned.       *)
(***************************************************************************)
EXTENDS Integers, Sequences, FiniteSets, TLC

VARIABLES
    listings_db,   \* main.py:23, the dict in insertion order
    clock,         \* the last instant datetime.utcnow() returned
    resp,          \* the last request served atomically and its response
    created,       \* history: ids returned by a successful create_listing
    deleted,       \* history: ids removed by a successful delete_listing
    gone,          \* history: ids removed and not returned by a create since
    pc,            \* per worker thread: position inside its handler
    req,           \* per worker thread: the request it serves
    existing,      \* per worker thread: update_listing's local `existing`
    new_listing,   \* per worker thread: update_listing's local `new_listing`
    outcome        \* per worker thread: status of the finished request

vars == <<listings_db, clock, resp, created, deleted, gone, pc, req, existing, new_listing, outcome>>

-----------------------------------------------------------------------------
(* Bounds *)

MaxClock == 1
MaxSupplied == 2

\* the values uuid4() may return for a listing, and for an address
UUIDs == {"u1", "u2"}
AddressUUIDs == {"a1"}
Threads == {1, 2}

-----------------------------------------------------------------------------
(* Python values *)

None == <<>>
Some(x) == <<x>>
Val(o) == o[1]

\* str as a sequence of characters
NY == <<"N", "Y">>
ny == <<"n", "y">>
LA == <<"L", "A">>
EmptyStr == <<>>

LowerChar(c) ==
    CASE c = "N" -> "n"
      [] c = "Y" -> "y"
      [] c = "L" -> "l"
      [] c = "A" -> "a"
      [] OTHER -> c

\* str.lower()
lower(s) == [i \in DOMAIN s |-> LowerChar(s[i])]

\* truthiness of an Optional[str]: None and "" are falsy
TruthyStr(o) == o # None /\ Val(o) # EmptyStr

\* truthiness of an Optional[List[str]]: None and [] are falsy
TruthyList(o) == o # None /\ Val(o) # <<>>

\* (x or 0) for an Optional[int]
OrZero(o) == IF o = None \/ Val(o) = 0 THEN 0 ELSE Val(o)

\* (xs or []) for a List[str]
OrEmptyList(xs) == IF xs = <<>> THEN <<>> ELSE xs

\* a in xs
InList(a, xs) == \E i \in DOMAIN xs : xs[i] = a

\* all(a in xs for a in wanted)
AllIn(wanted, xs) == \A i \in DOMAIN wanted : InList(wanted[i], xs)

-----------------------------------------------------------------------------
(* HTTP status codes of the responses *)

HTTP_200_OK == 200
HTTP_201_CREATED == 201
HTTP_204_NO_CONTENT == 204
HTTP_400_BAD_REQUEST == 400
HTTP_404_NOT_FOUND == 404
HTTP_422_UNPROCESSABLE == 422
HTTP_500_INTERNAL == 500

-----------------------------------------------------------------------------
(* Request payloads (ListingCreate with its AddressCreate) *)

Addr(street, city, state, postal_code, country) ==
    [street |-> street, city |-> city, state |-> state,
     postal_code |-> postal_code, country |-> country]

Payloads ==
    { [title |-> "Loft", description |-> None, monthly_rent |-> 1000,
       num_bedrooms |-> 1, num_bathrooms |-> 1, square_feet |-> None,
       amenities |-> <<>>, is_available |-> TRUE,
       address |-> Addr("1 Main St", NY, Some(NY), Some("10001"), Some("USA"))],
      [title |-> "Flat", description |-> Some("Near park"), monthly_rent |-> 1500,
       num_bedrooms |-> 2, num_bathrooms |-> 2, square_feet |-> Some(900),
       amenities |-> <<"Gym", "Pool">>, is_available |-> TRUE,
       address |-> Addr("2 Oak Ave", ny, None, None, None)],
      [title |-> "Studio", description |-> Some("Cosy"), monthly_rent |-> 2000,
       num_bedrooms |-> 0, num_bathrooms |-> 1, square_feet |-> Some(0),
       amenities |-> <<"Gym", "Gym">>, is_available |-> FALSE,
       address |-> Addr("3 Elm Rd", LA, Some(EmptyStr), Some("90001"), None)] }

-----------------------------------------------------------------------------
(* Builders *)

\* mutant of make_address_read: the state is not copied from the payload
make_address_read_without_state(addr, id, now) ==
    [id |-> id,
     street |-> addr.street,
     city |-> addr.city,
     state |-> None,
     postal_code |-> addr.postal_code,
     country |-> addr.country,
     created_at |-> now,
     updated_at |-> now]

\* make_address_read: id = uuid4(), both timestamps = now
make_address_read(addr, id, now) ==
    [id |-> id,
     street |-> addr.street,
     city |-> addr.city,
     state |-> addr.state,
     postal_code |-> addr.postal_code,
     country |-> addr.country,
     created_at |-> now,
     updated_at |-> now]

\* make_listing_read: listing's now is read first, the address's afterwards
make_listing_read(payload, id, now, addr_id, addr_now) ==
    [id |-> id,
     title |-> payload.title,
     description |-> payload.description,
     monthly_rent |-> payload.monthly_rent,
     num_bedrooms |-> payload.num_bedrooms,
     num_bathrooms |-> payload.num_bathrooms,
     square_feet |-> payload.square_feet,
     amenities |-> OrEmptyList(payload.amenities),
     is_available |-> payload.is_available,
     address |-> make_address_read(payload.address, addr_id, addr_now),
     created_at |-> now,
     updated_at |-> now]

\* mutant of updated_listing_read: the creation timestamp is taken anew
updated_listing_read_created_now(listing_id, payload, old, new_address, now) ==
    [id |-> listing_id,
     title |-> payload.title,
     description |-> payload.description,
     monthly_rent |-> payload.monthly_rent,
     num_bedrooms |-> payload.num_bedrooms,
     num_bathrooms |-> payload.num_bathrooms,
     square_feet |-> payload.square_feet,
     amenities |-> payload.amenities,
     is_available |-> payload.is_available,
     address |-> new_address,
     created_at |-> now,
     updated_at |-> now]

\* the ListingRead built in update_listing (main.py:135-148)
updated_listing_read(listing_id, payload, old, new_address, now) ==
    [id |-> listing_id,
     title |-> payload.title,
     description |-> payload.description,
     monthly_rent |-> payload.monthly_rent,
     num_bedrooms |-> payload.num_bedrooms,
     num_bathrooms |-> payload.num_bathrooms,
     square_feet |-> payload.square_feet,
     amenities |-> payload.amenities,
     is_available |-> payload.is_available,
     address |-> new_address,
     created_at |-> old.created_at,
     updated_at |-> now]

-----------------------------------------------------------------------------
(* The dict listings_db *)

Keys(db) == {db[i].id : i \in DOMAIN db}

\* key in db
Contains(db, key) == key \in Keys(db)

IndexOf(db, key) == CHOOSE i \in DOMAIN db : db[i].id = key

\* db[key]
GetItem(db, key) == db[IndexOf(db, key)]

\* db[key] = value: an existing key keeps its position, a new key goes last
SetItem(db, key, value) ==
    IF Contains(db, key)
    THEN [db EXCEPT ![IndexOf(db, key)] = value]
    ELSE Append(db, value)

\* del db[key], for a key that is present
DelItem(db, key) == SelectSeq(db, LAMBDA l : l.id # key)

\* list(db.values())
Values(db) == db

Range(s) == {s[i] : i \in DOMAIN s}

-----------------------------------------------------------------------------
(* Query criteria of list_listings *)

NoFilter ==
    [min_rent |-> None, max_rent |-> None,
     min_bedrooms |-> None, max_bedrooms |-> None,
     min_bathrooms |-> None, max_bathrooms |-> None,
     min_sqft |-> None, max_sqft |-> None,
     amenities |-> None, city |-> None, state |-> None,
     is_available |-> None]

\* <<criterion, supplied value>>
Criteria ==
    {<<"min_rent", Some(1200)>>, <<"min_rent", Some(1500)>>,
     <<"max_rent", Some(1800)>>, <<"max_rent", Some(1000)>>,
     <<"min_bedrooms", Some(0)>>, <<"min_bedrooms", Some(2)>>,
     <<"max_bedrooms", Some(0)>>, <<"max_bedrooms", Some(1)>>,
     <<"min_bathrooms", Some(3)>>, <<"min_bathrooms", Some(2)>>,
     <<"max_bathrooms", Some(3)>>, <<"max_bathrooms", Some(2)>>,
     <<"min_sqft", Some(0)>>, <<"min_sqft", Some(1)>>,
     <<"max_sqft", Some(0)>>, <<"max_sqft", Some(900)>>,
     <<"amenities", Some(<<>>)>>, <<"amenities", Some(<<"Gym">>)>>,
     <<"amenities", Some(<<"Gym", "Sauna">>)>>, <<"amenities", Some(<<"Pool", "Gym">>)>>,
     <<"city", Some(EmptyStr)>>, <<"city", Some(ny)>>, <<"city", Some(LA)>>,
     <<"state", Some(EmptyStr)>>, <<"state", Some(ny)>>,
     <<"is_available", Some(TRUE)>>, <<"is_available", Some(FALSE)>>}

Supply(f, c) == [f EXCEPT ![c[1]] = c[2]]

RECURSIVE FiltersUpTo(_)
FiltersUpTo(n) ==
    IF n = 0 THEN {NoFilter}
    ELSE LET P == FiltersUpTo(n - 1)
         IN  P \cup {Supply(f, c) : f \in P, c \in Criteria}

\* the queries of the read workload
Filters == FiltersUpTo(MaxSupplied)

\* the queries interleaved with the writes
MixedFilters ==
    {NoFilter,
     Supply(NoFilter, <<"city", Some(EmptyStr)>>),
     Supply(NoFilter, <<"state", Some(ny)>>),
     Supply(NoFilter, <<"min_rent", Some(1500)>>),
     Supply(NoFilter, <<"is_available", Some(TRUE)>>)}

-----------------------------------------------------------------------------
(* list_listings: the chain of list comprehensions of main.py:96-125 *)

list_listings(db, f) ==
    LET r0 == Values(db)
        r1 == IF f.min_rent # None
              THEN SelectSeq(r0, LAMBDA l : l.monthly_rent >= Val(f.min_rent)) ELSE r0
        r2 == IF f.max_rent # None
              THEN SelectSeq(r1, LAMBDA l : l.monthly_rent <= Val(f.max_rent)) ELSE r1
        r3 == IF f.min_bedrooms # None
              THEN SelectSeq(r2, LAMBDA l : l.num_bedrooms >= Val(f.min_bedrooms)) ELSE r2
        r4 == IF f.max_bedrooms # None
              THEN SelectSeq(r3, LAMBDA l : l.num_bedrooms <= Val(f.max_bedrooms)) ELSE r3
        r5 == IF f.min_bathrooms # None
              THEN SelectSeq(r4, LAMBDA l : 2 * l.num_bathrooms >= Val(f.min_bathrooms)) ELSE r4
        r6 == IF f.max_bathrooms # None
              THEN SelectSeq(r5, LAMBDA l : 2 * l.num_bathrooms <= Val(f.max_bathrooms)) ELSE r5
        r7 == IF f.min_sqft # None
              THEN SelectSeq(r6, LAMBDA l : OrZero(l.square_feet) >= Val(f.min_sqft)) ELSE r6
        r8 == IF f.max_sqft # None
              THEN SelectSeq(r7, LAMBDA l : OrZero(l.square_feet) <= Val(f.max_sqft)) ELSE r7
        r9 == IF f.is_available # None
              THEN SelectSeq(r8, LAMBDA l : l.is_available = Val(f.is_available)) ELSE r8
        r10 == IF TruthyList(f.amenities)
               THEN SelectSeq(r9, LAMBDA l : AllIn(Val(f.amenities), l.amenities)) ELSE r9
        r11 == IF TruthyStr(f.city)
               THEN SelectSeq(r10, LAMBDA l : lower(l.address.city) = lower(Val(f.city))) ELSE r10
        r12 == IF TruthyStr(f.state)
               THEN SelectSeq(r11, LAMBDA l : TruthyStr(l.address.state)
                                              /\ lower(Val(l.address.state)) = lower(Val(f.state)))
               ELSE r11
    IN  r12

-----------------------------------------------------------------------------
(* Responses of the handlers *)

Response(op, status, listing_id, payload, filters, body) ==
    [op |-> op, status |-> status, listing_id |-> listing_id,
     payload |-> payload, filters |-> filters, body |-> body]

NoResponse == Response("none", HTTP_200_OK, None, None, None, <<>>)

ThreadsIdle ==
    /\ pc = [t \in Threads |-> "idle"]
    /\ req = [t \in Threads |-> None]
    /\ existing = [t \in Threads |-> None]
    /\ new_listing = [t \in Threads |-> None]
    /\ outcome = [t \in Threads |-> None]

thread_vars == <<pc, req, existing, new_listing, outcome>>

-----------------------------------------------------------------------------
(* The handlers, each served from start to end without interleaving *)

\* mutant of create_listing: no check of the generated id against the keys
create_listing_unchecked(payload, id, now, addr_id, addr_now) ==
    LET listing == make_listing_read(payload, id, now, addr_id, addr_now)
    IN  /\ clock' = addr_now
        /\ listings_db' = SetItem(listings_db, listing.id, listing)
        /\ resp' = Response("create", HTTP_201_CREATED, Some(listing.id),
                            Some(payload), None, <<listing>>)
        /\ created' = created \cup {listing.id}
        /\ gone' = gone \ {listing.id}
        /\ UNCHANGED <<deleted, thread_vars>>

\* mutant of create_listing: the record is stored before the id is checked
create_listing_store_first(payload, id, now, addr_id, addr_now) ==
    LET listing == make_listing_read(payload, id, now, addr_id, addr_now)
    IN  /\ clock' = addr_now
        /\ listings_db' = SetItem(listings_db, listing.id, listing)
        /\ resp' = Response("create", HTTP_400_BAD_REQUEST, Some(listing.id),
                            Some(payload), None, <<>>)
        /\ gone' = gone \ {listing.id}
        /\ UNCHANGED <<created, deleted, thread_vars>>

\* POST /listings
create_listing(payload, id, now, addr_id, addr_now) ==
    LET listing == make_listing_read(payload, id, now, addr_id, addr_now)
    IN  /\ clock' = addr_now
        /\ IF Contains(listings_db, listing.id)
           THEN /\ resp' = Response("create", HTTP_400_BAD_REQUEST, Some(listing.id),
                                    Some(payload), None, <<>>)
                /\ UNCHANGED <<listings_db, created, gone>>
           ELSE /\ listings_db' = SetItem(listings_db, listing.id, listing)
                /\ resp' = Response("create", HTTP_201_CREATED, Some(listing.id),
                                    Some(payload), None,
                                    <<GetItem(listings_db', listing.id)>>)
                /\ created' = created \cup {listing.id}
                /\ gone' = gone \ {listing.id}
        /\ UNCHANGED <<deleted, thread_vars>>

\* GET /listings
list_listings_request(f) ==
    /\ resp' = Response("list", HTTP_200_OK, None, None, Some(f),
                        list_listings(listings_db, f))
    /\ UNCHANGED <<listings_db, clock, created, deleted, gone, thread_vars>>

\* mutant of update_listing: a missing id is inserted instead of refused
update_listing_upsert(listing_id, payload, addr_id, addr_now, now) ==
    /\ LET new_address == make_address_read(payload.address, addr_id, addr_now)
           old == IF Contains(listings_db, listing_id)
                  THEN GetItem(listings_db, listing_id)
                  ELSE [created_at |-> now]
           new == updated_listing_read(listing_id, payload, old, new_address, now)
       IN  /\ listings_db' = SetItem(listings_db, listing_id, new)
           /\ clock' = now
           /\ resp' = Response("update", HTTP_200_OK, Some(listing_id),
                               Some(payload), None, <<new>>)
    /\ UNCHANGED <<created, deleted, gone, thread_vars>>

\* PUT /listings/{listing_id}
update_listing(listing_id, payload, addr_id, addr_now, now) ==
    /\ IF ~Contains(listings_db, listing_id)
       THEN /\ resp' = Response("update", HTTP_404_NOT_FOUND, Some(listing_id),
                                Some(payload), None, <<>>)
            /\ UNCHANGED <<listings_db, clock>>
       ELSE LET old == GetItem(listings_db, listing_id)
                new_address == make_address_read(payload.address, addr_id, addr_now)
                new == updated_listing_read(listing_id, payload, old, new_address, now)
            IN  /\ listings_db' = SetItem(listings_db, listing_id, new)
                /\ clock' = now
                /\ resp' = Response("update", HTTP_200_OK, Some(listing_id),
                                    Some(payload), None, <<new>>)
    /\ UNCHANGED <<created, deleted, gone, thread_vars>>

\* mutant of delete_listing: deleting a missing id is answered as a success
delete_listing_idempotent(listing_id) ==
    /\ listings_db' = DelItem(listings_db, listing_id)
    /\ resp' = Response("delete", HTTP_204_NO_CONTENT, Some(listing_id),
                        None, None, <<>>)
    /\ deleted' = deleted \cup {listing_id}
    /\ gone' = gone \cup {listing_id}
    /\ UNCHANGED <<clock, created, thread_vars>>

\* DELETE /listings/{listing_id}
delete_listing(listing_id) ==
    /\ IF ~Contains(listings_db, listing_id)
       THEN /\ resp' = Response("delete", HTTP_404_NOT_FOUND, Some(listing_id),
                                None, None, <<>>)
            /\ UNCHANGED <<listings_db, deleted, gone>>
       ELSE /\ listings_db' = DelItem(listings_db, listing_id)
            /\ resp' = Response("delete", HTTP_204_NO_CONTENT, Some(listing_id),
                                None, None, <<>>)
            /\ deleted' = deleted \cup {listing_id}
            /\ gone' = gone \cup {listing_id}
    /\ UNCHANGED <<clock, created, thread_vars>>

Instants(from) == from .. MaxClock

CreateStep ==
    \E payload \in Payloads, id \in UUIDs, addr_id \in AddressUUIDs :
        \E now \in Instants(clock) : \E addr_now \in Instants(now) :
            create_listing(payload, id, now, addr_id, addr_now)

ListStep == \E f \in MixedFilters : list_listings_request(f)

UpdateStep ==
    \E listing_id \in UUIDs, payload \in Payloads, addr_id \in AddressUUIDs :
        \E addr_now \in Instants(clock) : \E now \in Instants(addr_now) :
            update_listing(listing_id, payload, addr_id, addr_now, now)

DeleteStep == \E listing_id \in UUIDs : delete_listing(listing_id)

Init ==
    /\ listings_db = <<>>
    /\ clock = 0
    /\ resp = NoResponse
    /\ created = {}
    /\ deleted = {}
    /\ gone = {}
    /\ ThreadsIdle

Next == CreateStep \/ ListStep \/ UpdateStep \/ DeleteStep

Spec == Init /\ [][Next]_vars

-----------------------------------------------------------------------------
(* The read workload: the store is filled and emptied while the clock *)
(* stands still, and queried with every combination of Filters        *)

Populate ==
    \E payload \in Payloads, id \in UUIDs, addr_id \in AddressUUIDs :
        create_listing(payload, id, clock, addr_id, clock)

QueryStep == \E f \in Filters : list_listings_request(f)

NextList == Populate \/ DeleteStep \/ QueryStep

SpecList == Init /\ [][NextList]_vars

-----------------------------------------------------------------------------
(* Two worker threads serve one update_listing or delete_listing request *)
(* each; a step is a stretch of a handler with one access to listings_db *)

Requests ==
    {[op |-> "delete", listing_id |-> id, payload |-> None] : id \in UUIDs}
    \cup {[op |-> "update", listing_id |-> id, payload |-> Some(p)] :
            id \in UUIDs, p \in Payloads}

\* stores holding one listing, as create_listing leaves them
StoredOnce ==
    {<<make_listing_read(p, id, 0, a, 0)>> :
        p \in Payloads, id \in UUIDs, a \in AddressUUIDs}

shared_history == <<resp, created, deleted, gone>>

\* the request reaches its handler
Accept(t, r) ==
    /\ pc[t] = "idle"
    /\ req' = [req EXCEPT ![t] = Some(r)]
    /\ pc' = [pc EXCEPT ![t] = IF r.op = "update" THEN "upd_get" ELSE "del_check"]
    /\ UNCHANGED <<listings_db, clock, existing, new_listing, outcome, shared_history>>

\* main.py:129-131
update_get(t) ==
    /\ pc[t] = "upd_get"
    /\ LET listing_id == Val(req[t]).listing_id
       IN  IF ~Contains(listings_db, listing_id)
           THEN /\ outcome' = [outcome EXCEPT ![t] = Some(HTTP_404_NOT_FOUND)]
                /\ pc' = [pc EXCEPT ![t] = "done"]
                /\ UNCHANGED existing
           ELSE /\ existing' = [existing EXCEPT ![t] = Some(GetItem(listings_db, listing_id))]
                /\ pc' = [pc EXCEPT ![t] = "upd_build"]
                /\ UNCHANGED outcome
    /\ UNCHANGED <<listings_db, clock, req, new_listing, shared_history>>

\* main.py:133-148
update_build(t, addr_id, addr_now, now) ==
    /\ pc[t] = "upd_build"
    /\ LET r == Val(req[t])
           new_address == make_address_read(Val(r.payload).address, addr_id, addr_now)
       IN  new_listing' = [new_listing EXCEPT ![t] =
                Some(updated_listing_read(r.listing_id, Val(r.payload),
                                          Val(existing[t]), new_address, now))]
    /\ clock' = now
    /\ pc' = [pc EXCEPT ![t] = "upd_store"]
    /\ UNCHANGED <<listings_db, req, existing, outcome, shared_history>>

\* main.py:150-151
update_store(t) ==
    /\ pc[t] = "upd_store"
    /\ listings_db' = SetItem(listings_db, Val(req[t]).listing_id, Val(new_listing[t]))
    /\ outcome' = [outcome EXCEPT ![t] = Some(HTTP_200_OK)]
    /\ pc' = [pc EXCEPT ![t] = "done"]
    /\ UNCHANGED <<clock, req, existing, new_listing, shared_history>>

\* main.py:155-156
delete_check(t) ==
    /\ pc[t] = "del_check"
    /\ IF ~Contains(listings_db, Val(req[t]).listing_id)
       THEN /\ outcome' = [outcome EXCEPT ![t] = Some(HTTP_404_NOT_FOUND)]
            /\ pc' = [pc EXCEPT ![t] = "done"]
       ELSE /\ pc' = [pc EXCEPT ![t] = "del_remove"]
            /\ UNCHANGED outcome
    /\ UNCHANGED <<listings_db, clock, req, existing, new_listing, shared_history>>

\* main.py:157; del on a missing key raises KeyError, which no handler
\* catches: the request ends with an internal server error
delete_remove(t) ==
    /\ pc[t] = "del_remove"
    /\ IF Contains(listings_db, Val(req[t]).listing_id)
       THEN /\ listings_db' = DelItem(listings_db, Val(req[t]).listing_id)
            /\ outcome' = [outcome EXCEPT ![t] = Some(HTTP_204_NO_CONTENT)]
       ELSE /\ outcome' = [outcome EXCEPT ![t] = Some(HTTP_500_INTERNAL)]
            /\ UNCHANGED listings_db
    /\ pc' = [pc EXCEPT ![t] = "done"]
    /\ UNCHANGED <<clock, req, existing, new_listing, shared_history>>

AcceptStep == \E t \in Threads, r \in Requests : Accept(t, r)

UpdateGetStep == \E t \in Threads : update_get(t)

UpdateBuildStep ==
    \E t \in Threads, addr_id \in AddressUUIDs :
        \E addr_now \in Instants(clock) : \E now \in Instants(addr_now) :
            update_build(t, addr_id, addr_now, now)

UpdateStoreStep == \E t \in Threads : update_store(t)

DeleteCheckStep == \E t \in Threads : delete_check(t)

DeleteRemoveStep == \E t \in Threads : delete_remove(t)

InitRace ==
    /\ listings_db \in StoredOnce
    /\ clock = 0
    /\ resp = NoResponse
    /\ created = Keys(listings_db)
    /\ deleted = {}
    /\ gone = {}
    /\ ThreadsIdle

NextRace ==
    \/ AcceptStep
    \/ UpdateGetStep
    \/ UpdateBuildStep
    \/ UpdateStoreStep
    \/ DeleteCheckStep
    \/ DeleteRemoveStep

SpecRace == InitRace /\ [][NextRace]_vars

-----------------------------------------------------------------------------
(* Properties.  In Spec and SpecList every step is one request, and resp'  *)
(* records which: its operation, its arguments and its response.           *)

IdsOf(listings) == {listings[i].id : i \in DOMAIN listings}

\* the fields of a stored listing that come from the request payload
SameAsPayload(l, p) ==
    /\ l.title = p.title
    /\ l.description = p.description
    /\ l.monthly_rent = p.monthly_rent
    /\ l.num_bedrooms = p.num_bedrooms
    /\ l.num_bathrooms = p.num_bathrooms
    /\ l.square_feet = p.square_feet
    /\ l.amenities = p.amenities
    /\ l.is_available = p.is_available
    /\ l.address.street = p.address.street
    /\ l.address.city = p.address.city
    /\ l.address.state = p.address.state
    /\ l.address.postal_code = p.address.postal_code
    /\ l.address.country = p.address.country

\* C1 as stated: once delete_listing(id) has succeeded, no later list result
\* holds id and every later update_listing(id) or delete_listing(id) signals
\* NotFound, whatever requests come in between (creates included).
C1_DeletedNeverSeenAgain ==
    [][ /\ resp'.op = "list" => IdsOf(resp'.body) \cap deleted = {}
        /\ (resp'.op \in {"update", "delete"} /\ Val(resp'.listing_id) \in deleted)
              => resp'.status = HTTP_404_NOT_FOUND ]_vars

\* C1 amended: once delete_listing(id) has succeeded, and until a later
\* create_listing returns the same id again, no list result holds id and
\* every update_listing(id) or delete_listing(id) signals NotFound.
C1_DeletedUntilRecreated ==
    [][ /\ resp'.op = "list" => IdsOf(resp'.body) \cap gone = {}
        /\ (resp'.op \in {"update", "delete"} /\ Val(resp'.listing_id) \in gone)
              => resp'.status = HTTP_404_NOT_FOUND ]_vars

\* C1 witness: an update or delete of a deleted id was answered NotFound
\* while another listing is stored.
C1_Witness ==
    /\ resp.op \in {"update", "delete"}
    /\ Val(resp.listing_id) \in gone
    /\ resp.status = HTTP_404_NOT_FOUND
    /\ listings_db # <<>>

\* C3: a successful update_listing(id, payload) stores and returns a record
\* with the same id and creation timestamp as before, an update timestamp >=
\* the previous one, and every other field equal to the payload's.
C3_UpdatePreserves ==
    [][ (resp'.op = "update" /\ resp'.status = HTTP_200_OK) =>
            LET id == Val(resp'.listing_id)
                old == GetItem(listings_db, id)
                new == GetItem(listings_db', id)
            IN  /\ Contains(listings_db, id)
                /\ Contains(listings_db', id)
                /\ resp'.body = <<new>>
                /\ new.id = old.id
                /\ new.created_at = old.created_at
                /\ new.updated_at >= old.updated_at
                /\ SameAsPayload(new, Val(resp'.payload)) ]_vars

\* C3 witness: an update succeeded at a later instant than the creation.
C3_Witness ==
    /\ resp.op = "update"
    /\ resp.status = HTTP_200_OK
    /\ resp.body[1].updated_at > resp.body[1].created_at
    /\ GetItem(listings_db, Val(resp.listing_id)) = resp.body[1]

\* C4: right after a successful create_listing(payload), list_listings with
\* no filters contains the created listing with the payload's field values.
C4_CreateThenList ==
    (resp.op = "create" /\ resp.status = HTTP_201_CREATED) =>
        \E l \in Range(list_listings(listings_db, NoFilter)) :
            /\ l.id = Val(resp.listing_id)
            /\ l = resp.body[1]
            /\ SameAsPayload(l, Val(resp.payload))

\* C4 witness: a listing was created in a store that already held another.
C4_Witness ==
    /\ resp.op = "create"
    /\ resp.status = HTTP_201_CREATED
    /\ Len(listings_db) = 2
    /\ resp.body[1].amenities # <<>>

\* C5 as stated: the id of a successful create_listing differs from the id
\* of every listing created before, the deleted ones included.
C5_IdNeverIssuedBefore ==
    [][ (resp'.op = "create" /\ resp'.status = HTTP_201_CREATED)
            => Val(resp'.listing_id) \notin created ]_vars

\* C5 amended: the id of a successful create_listing differs from the id of
\* every listing stored at the time of the request.
C5_IdNotStored ==
    [][ (resp'.op = "create" /\ resp'.status = HTTP_201_CREATED)
            => Val(resp'.listing_id) \notin Keys(listings_db) ]_vars

\* C5 witness: a create succeeded with an id a deleted listing had, while
\* another listing is stored.
C5_Witness ==
    /\ resp.op = "create"
    /\ resp.status = HTTP_201_CREATED
    /\ Val(resp.listing_id) \in deleted
    /\ Len(listings_db) = 2

\* C6: update_listing and delete_listing on an id that is no key of the
\* store signal NotFound and leave the store as it was.
C6_MissingIdNotFound ==
    [][ (resp'.op \in {"update", "delete"}
         /\ ~Contains(listings_db, Val(resp'.listing_id)))
            => /\ resp'.status = HTTP_404_NOT_FOUND
               /\ listings_db' = listings_db ]_vars

\* C6 witness: a request on an id that was never created was answered
\* NotFound while the store holds a listing.
C6_Witness ==
    /\ resp.op \in {"update", "delete"}
    /\ Val(resp.listing_id) \notin created
    /\ resp.status = HTTP_404_NOT_FOUND
    /\ listings_db # <<>>

\* C7: when the generated id is already a key, create_listing answers with
\* the conflict status, distinct from NotFound, from InvalidInput and from
\* the success statuses, and the store is unchanged; otherwise the record is inserted
\* and returned with the created status.
C7_ConflictOrCreated ==
    [][ resp'.op = "create" =>
            LET id == Val(resp'.listing_id)
            IN  IF Contains(listings_db, id)
                THEN /\ resp'.status = HTTP_400_BAD_REQUEST
                     /\ resp'.status \notin {HTTP_404_NOT_FOUND, HTTP_422_UNPROCESSABLE,
                                             HTTP_200_OK, HTTP_201_CREATED,
                                             HTTP_204_NO_CONTENT}
                     /\ resp'.body = <<>>
                     /\ listings_db' = listings_db
                ELSE /\ resp'.status = HTTP_201_CREATED
                     /\ Len(resp'.body) = 1
                     /\ resp'.body[1].id = id
                     /\ listings_db' = Append(listings_db, resp'.body[1]) ]_vars

\* C7 witness: a create was rejected because its id was a key of the store.
C7_Witness ==
    /\ resp.op = "create"
    /\ resp.status = HTTP_400_BAD_REQUEST
    /\ Contains(listings_db, Val(resp.listing_id))

\* a listing satisfies a supplied criterion (None: not supplied)
Satisfies(l, f) ==
    /\ f.min_rent # None => l.monthly_rent >= Val(f.min_rent)
    /\ f.max_rent # None => l.monthly_rent <= Val(f.max_rent)
    /\ f.min_bedrooms # None => l.num_bedrooms >= Val(f.min_bedrooms)
    /\ f.max_bedrooms # None => l.num_bedrooms <= Val(f.max_bedrooms)
    /\ f.min_bathrooms # None => 2 * l.num_bathrooms >= Val(f.min_bathrooms)
    /\ f.max_bathrooms # None => 2 * l.num_bathrooms <= Val(f.max_bathrooms)
    /\ f.min_sqft # None =>
          (IF l.square_feet = None THEN 0 ELSE Val(l.square_feet)) >= Val(f.min_sqft)
    /\ f.max_sqft # None =>
          (IF l.square_feet = None THEN 0 ELSE Val(l.square_feet)) <= Val(f.max_sqft)
    /\ f.amenities # None => Range(Val(f.amenities)) \subseteq Range(l.amenities)
    /\ f.city # None => lower(l.address.city) = lower(Val(f.city))
    /\ f.state # None =>
          /\ l.address.state # None
          /\ lower(Val(l.address.state)) = lower(Val(f.state))
    /\ f.is_available # None => l.is_available = Val(f.is_available)

\* C2: list_listings returns exactly the stored listings that satisfy every
\* supplied criterion.
C2_ExactlyTheMatches ==
    resp.op = "list" =>
        Range(resp.body) = {l \in Range(listings_db) : Satisfies(l, Val(resp.filters))}

\* C8: with a city criterion supplied (the empty string included) only
\* listings of that city, ignoring case, are returned; with a state
\* criterion supplied only listings that have that state, ignoring case.
C8_CityStateIgnoreCase ==
    resp.op = "list" =>
        LET f == Val(resp.filters)
        IN  /\ f.city # None =>
                \A l \in Range(resp.body) : lower(l.address.city) = lower(Val(f.city))
            /\ f.state # None =>
                \A l \in Range(resp.body) :
                    /\ l.address.state # None
                    /\ lower(Val(l.address.state)) = lower(Val(f.state))

\* C9: once an update_listing(id) and a delete_listing(id) served by two
\* threads have both finished and the delete has answered success, id is
\* absent from the store.
C9_DeleteWinsOverUpdate ==
    \A t \in Threads, u \in Threads :
        ( /\ pc[t] = "done" /\ pc[u] = "done"
          /\ Val(req[t]).op = "delete" /\ Val(req[u]).op = "update"
          /\ Val(req[t]).listing_id = Val(req[u]).listing_id
          /\ outcome[t] = Some(HTTP_204_NO_CONTENT) )
            => ~Contains(listings_db, Val(req[t]).listing_id)

\* C10: every finished delete_listing request ends with success-with-no-
\* content or with NotFound.
C10_DeleteOutcomes ==
    \A t \in Threads :
        (pc[t] = "done" /\ Val(req[t]).op = "delete")
            => outcome[t] \in {Some(HTTP_204_NO_CONTENT), Some(HTTP_404_NOT_FOUND)}

====
